---- MODULE Spec2Model ----
(***************************************************************************)
(* Model of core/calibration.py: the radar calibration objects             *)
(* (SCRadarCalibration, CCRadarCalibration, BaseTransform, Calibration)    *)
(* and the correction tensors they derive with numpy.                      *)
(*                                                                         *)
(* numpy arrays are records [kind, shape, flat]: the flat buffer in C      *)
(* (row-major) order and the shape.  A raised Python exception is a record *)
(* whose kind is the exception's name.  Floats are exact numbers: integers *)
(* for the stored samples, rationals for quotients.                        *)
(***************************************************************************)
EXTENDS Integers, Sequences, FiniteSets, TLC

VARIABLES
    self,       \* the calibration object (its stored fields)
    first,      \* per method, what its first call returned
    ret,        \* per caller and method, what the latest call returned
    files,      \* the calibration files: what each loader yields for each path
    rootdir,    \* the mapping handed to a constructor
    built       \* the outcome of the constructor call

vars == <<self, first, ret, files, rootdir, built>>

-----------------------------------------------------------------------------
(* Bounds of the model *)

MaxAnt == 2
MaxSamples == 3
MaxDataLen == 8
MaxPhaseLen == 8
MaxFreqLen == 4
NumCallers == 2

-----------------------------------------------------------------------------
(* Arithmetic helpers *)

Abs(x) == IF x < 0 THEN -x ELSE x

RECURSIVE Gcd(_, _)
Gcd(a, b) == IF b = 0 THEN Abs(a) ELSE Gcd(Abs(b), Abs(a) % Abs(b))

RECURSIVE Product(_)
Product(s) == IF s = <<>> THEN 1 ELSE Head(s) * Product(Tail(s))

SeqsFromTo(S, lo, hi) == UNION {[1..k -> S] : k \in lo..hi}

-----------------------------------------------------------------------------
(* Python floats, as exact numbers: (n/d) * 2^a * 5^b with n/d in lowest     *)
(* terms and n, d coprime to 10, so that 77e9 and 1e9 are small records and  *)
(* equal numbers are equal records.                                         *)

RECURSIVE Pow(_, _)
Pow(base, k) == IF k = 0 THEN 1 ELSE base * Pow(base, k - 1)

\* How many times p divides n (n # 0)
RECURSIVE Times(_, _)
Times(p, n) == IF n % p = 0 THEN 1 + Times(p, n \div p) ELSE 0

Norm(n, d, a, b) ==
    IF n = 0 THEN [n |-> 0, d |-> 1, a |-> 0, b |-> 0]
    ELSE LET sn == IF d < 0 THEN -n ELSE n
             sd == Abs(d)
             g  == Gcd(sn, sd)
             n1 == sn \div g
             d1 == sd \div g
             n2 == Times(2, Abs(n1))
             n5 == Times(5, Abs(n1))
             d2 == Times(2, d1)
             d5 == Times(5, d1)
         IN  [n |-> n1 \div (Pow(2, n2) * Pow(5, n5)),
              d |-> d1 \div (Pow(2, d2) * Pow(5, d5)),
              a |-> a + n2 - d2,
              b |-> b + n5 - d5]

FromInt(i) == Norm(i, 1, 0, 0)

\* The decimal literal m e k, such as 1e9
Dec(m, k) == Norm(m, 1, k, k)

NumMul(x, y) == Norm(x.n * y.n, x.d * y.d, x.a + y.a, x.b + y.b)

\* x / y for y # 0
NumDiv(x, y) == Norm(x.n * y.d, x.d * y.n, x.a - y.a, x.b - y.b)

Min(i, j) == IF i < j THEN i ELSE j

NumAdd(x, y) ==
    IF x.n = 0 THEN y
    ELSE IF y.n = 0 THEN x
    ELSE LET a  == Min(x.a, y.a)
             b  == Min(x.b, y.b)
             kx == Pow(2, x.a - a) * Pow(5, x.b - b)
             ky == Pow(2, y.a - a) * Pow(5, y.b - b)
         IN  Norm(x.n * kx * y.d + y.n * ky * x.d, x.d * y.d, a, b)

-----------------------------------------------------------------------------
(* numpy, as far as the module uses it *)

None == [kind |-> "None", shape |-> <<>>, flat |-> <<>>]

Raised(name) == [kind |-> name, shape |-> <<>>, flat |-> <<>>]

IsArray(a) == a.kind = "ndarray"

\* np.array(list): a fresh one-dimensional array holding a copy of the list
np_array(list) == [kind |-> "ndarray", shape |-> <<Len(list)>>, flat |-> list]

\* ndarray.reshape(*shape): same buffer, new shape; ValueError when the sizes differ
reshape(a, shape) ==
    IF ~IsArray(a) THEN a
    ELSE IF Product(shape) = Len(a.flat)
         THEN [kind |-> "ndarray", shape |-> shape, flat |-> a.flat]
         ELSE Raised("ValueError")

\* np.resize-like reshape that repeats or drops elements to fit (never raises)
resize(a, shape) ==
    IF ~IsArray(a) THEN a
    ELSE [kind |-> "ndarray", shape |-> shape,
          flat |-> [i \in 1..Product(shape) |->
                      IF Len(a.flat) = 0 THEN 0
                      ELSE a.flat[((i - 1) % Len(a.flat)) + 1]]]

\* Offset (0-based) of a 0-based multi-index in a C-ordered array of that shape
RECURSIVE Offset(_, _)
Offset(shape, idx) ==
    IF shape = <<>> THEN 0
    ELSE LET n == Len(shape)
         IN  Offset(SubSeq(shape, 1, n - 1), SubSeq(idx, 1, n - 1)) * shape[n] + idx[n]

\* a[idx] for a full 0-based multi-index
At(a, idx) == a.flat[Offset(a.shape, idx) + 1]

\* a[start::step] of a one-dimensional array (start is 0-based)
np_slice(a, start, step) ==
    LET len   == Len(a.flat)
        count == IF len <= start THEN 0 ELSE (len - start + step - 1) \div step
    IN  np_array([i \in 1..count |-> a.flat[start + (i - 1) * step + 1]])

\* Complex numbers: (re + im*i) / den in lowest terms, den > 0; den = 0 is a
\* non-finite value (nan or inf parts), which numpy yields on division by zero
Cx(re, im, den) ==
    IF den = 0 THEN [re |-> 0, im |-> 0, den |-> 0]
    ELSE LET g == Gcd(Gcd(re, im), den)
             k == IF den < 0 THEN -g ELSE g
         IN  [re |-> re \div k, im |-> im \div k, den |-> den \div k]

CMul(x, y) ==
    Cx(x.re * y.re - x.im * y.im, x.re * y.im + x.im * y.re, x.den * y.den)

CDiv(x, y) ==
    Cx(y.den * (x.re * y.re + x.im * y.im),
       y.den * (x.im * y.re - x.re * y.im),
       x.den * (y.re * y.re + y.im * y.im))

\* re + 1j * im for two one-dimensional real arrays, with numpy's broadcasting:
\* equal lengths pair up, a length of 1 stretches, anything else is a ValueError
complex_from(re, im) ==
    LET e == Len(re.flat)
        o == Len(im.flat)
        len == IF e = o THEN e ELSE IF e = 1 THEN o ELSE e
    IN  IF e # o /\ e # 1 /\ o # 1 THEN Raised("ValueError")
        ELSE np_array([i \in 1..len |->
                 Cx(re.flat[IF e = 1 THEN 1 ELSE i],
                    im.flat[IF o = 1 THEN 1 ELSE i], 1)])

\* a[0]: IndexError on an empty array
first_of(a) == IF Len(a.flat) = 0 THEN Raised("IndexError") ELSE a.flat[1]

\* exp(2*pi*i * tn/td), the fraction of a turn in lowest terms and in [0, 1)
Turn(p, q) ==
    LET m == p % q
        g == Gcd(m, q)
    IN  [tn |-> m \div g, td |-> q \div g]

\* np.exp(-1j * 2*pi*x) for an exact x
exp_neg_turns(x) ==
    Turn(-(x.n * Pow(2, IF x.a > 0 THEN x.a ELSE 0)
               * Pow(5, IF x.b > 0 THEN x.b ELSE 0)),
         x.d * Pow(2, IF x.a < 0 THEN -x.a ELSE 0)
             * Pow(5, IF x.b < 0 THEN -x.b ELSE 0))

-----------------------------------------------------------------------------
(* The calibration files and their loaders.  A path is <<group, key>>; the  *)
(* file system maps each path to the record its loader yields.             *)

SensorKeys == <<"antenna", "coupling", "waveform", "heatmap">>

TransformKeys == <<"base-to-ccradar", "base-to-scradar", "base-to-imu",
                   "base-to-lidar", "base-to-vicon">>

Range(seq) == {seq[i] : i \in DOMAIN seq}

KeysOf(group) ==
    IF group = "scradar" THEN Range(SensorKeys)
    ELSE IF group = "ccradar" THEN Range(SensorKeys) \cup {"phase"}
    ELSE Range(TransformKeys)

\* A complete path mapping of one group, as dataset.json gives it
FullConfig(group) == [k \in KeysOf(group) |-> <<group, k>>]

Groups == {"scradar", "ccradar", "transform"}

\* The content of the files of one sensor, from the numbers in them
FileOf(key, p) ==
    IF key = "antenna" THEN
        [num_rx |-> p.rx, num_tx |-> p.tx, f_design |-> p.f_design,
         rxl |-> [i \in 1..p.rx |-> <<i - 1, i - 1, 0>>],
         txl |-> [i \in 1..p.tx |-> <<i - 1, 2 * (i - 1), 0>>]]
    ELSE IF key = "coupling" THEN
        [num_rx |-> p.rx, num_tx |-> p.tx, num_range_bins |-> p.N,
         num_doppler_bins |-> 1, data |-> p.data]
    ELSE IF key = "waveform" THEN
        [num_rx |-> p.rx, num_tx |-> p.tx,
         num_adc_samples_per_chirp |-> p.N, num_chirps_per_frame |-> 1,
         adc_sample_frequency |-> p.adc_sample_frequency,
         start_frequency |-> p.start_frequency,
         idle_time |-> Dec(5, -6), adc_start_time |-> Dec(6, -6),
         ramp_end_time |-> Dec(6, -5),
         frequency_slope |-> p.frequency_slope]
    ELSE IF key = "heatmap" THEN
        [num_range_bins |-> p.N, num_elevation_bins |-> 1,
         num_azimuth_bins |-> 1, range_bin_width |-> Dec(12, -2),
         azimuth_bins |-> <<FromInt(0)>>, elevation_bins |-> <<FromInt(0)>>]
    ELSE IF key = "phase" THEN
        [num_rx |-> p.rx, num_tx |-> p.tx,
         frequency_slope |-> p.cal_frequency_slope,
         sampling_rate |-> p.cal_sampling_rate,
         frequency_calibration_matrix |-> p.fcm,
         phase_calibration_matrix |-> p.pcm]
    ELSE [path |-> key]

\* The numbers of a small, consistent sensor
DefaultParams ==
    [rx |-> 1, tx |-> 1, N |-> 1, data |-> <<1>>,
     f_design |-> Dec(768, -1),
     adc_sample_frequency |-> Dec(5, 6),
     start_frequency |-> Dec(77, 9),
     frequency_slope |-> Dec(7, 13),
     cal_frequency_slope |-> Dec(7, 13),
     cal_sampling_rate |-> Dec(5, 6),
     fcm |-> <<0>>, pcm |-> <<1, 0>>]

PathsOf(group) == {<<group, k>> : k \in KeysOf(group)}

\* The files of one group, its sensor holding the numbers p
FilesOf(group, p) == [path \in PathsOf(group) |-> FileOf(path[2], p)]

\* The loaders: each reads the file at filepath (lines 42-189)
AntennaConfig(filepath, fs) == fs[filepath]

CouplingCalibration(filepath, fs) == fs[filepath]

WaveformConfiguration(filepath, fs) == fs[filepath]

HeatmapConfiguration(filepath, fs) == fs[filepath]

PhaseCalibration(filepath, fs) == fs[filepath]

\* config[key] of a dict that lacks the key
KeyError(key) == [kind |-> "KeyError", key |-> key]

IsKeyError(x) == x.kind = "KeyError"

\* The keys of `keys`, in order, that config lacks
Missing(config, keys) == SelectSeq(keys, LAMBDA k : k \notin DOMAIN config)

-----------------------------------------------------------------------------
(* SCRadarCalibration.__init__ *)

Giga == Dec(1, 9)

Half == Norm(1, 2, 0, 0)

\* The spacing factor with the design frequency scaled like the other frequencies
SpacingFactor_scaled(waveform, antenna) ==
    LET fstart  == NumDiv(waveform.start_frequency, Giga)
        fslope  == NumDiv(waveform.frequency_slope, Giga)
        fsample == waveform.adc_sample_frequency
        stime   == NumDiv(FromInt(waveform.num_adc_samples_per_chirp), fsample)
        fdesign == NumDiv(antenna.f_design, Giga)
    IN  NumMul(Half,
               NumDiv(NumAdd(fstart, NumDiv(NumMul(fslope, stime), FromInt(2))),
                      fdesign))

\* self.d
SpacingFactor(waveform, antenna) ==
    LET fstart  == NumDiv(waveform.start_frequency, Giga)
        fslope  == NumDiv(waveform.frequency_slope, Giga)
        fsample == waveform.adc_sample_frequency
        stime   == NumDiv(FromInt(waveform.num_adc_samples_per_chirp), fsample)
        fdesign == antenna.f_design
    IN  NumMul(Half,
               NumDiv(NumAdd(fstart, NumDiv(NumMul(fslope, stime), FromInt(2))),
                      fdesign))

SCRadarCalibration_init(config, fs) ==
    LET missing == Missing(config, SensorKeys)
    IN  IF missing # <<>> THEN KeyError(missing[1])
        ELSE LET antenna  == AntennaConfig(config["antenna"], fs)
                 coupling == CouplingCalibration(config["coupling"], fs)
                 waveform == WaveformConfiguration(config["waveform"], fs)
                 heatmap  == HeatmapConfiguration(config["heatmap"], fs)
             IN  [kind |-> "SCRadarCalibration",
                  antenna |-> antenna, coupling |-> coupling,
                  waveform |-> waveform, heatmap |-> heatmap,
                  d |-> SpacingFactor(waveform, antenna)]

-----------------------------------------------------------------------------
(* CCRadarCalibration.__init__ *)

CCRadarCalibration_init(config, fs) ==
    LET base == SCRadarCalibration_init(config, fs)
    IN  IF IsKeyError(base) THEN base
        ELSE IF "phase" \notin DOMAIN config THEN KeyError("phase")
        ELSE [kind |-> "CCRadarCalibration",
              antenna |-> base.antenna, coupling |-> base.coupling,
              waveform |-> base.waveform, heatmap |-> base.heatmap,
              d |-> base.d,
              phase |-> PhaseCalibration(config["phase"], fs)]

-----------------------------------------------------------------------------
(* BaseTransform.__init__ and Calibration.__init__ *)

\* A transform of core.transform, built from the file at filepath
Transform(class, filepath) == [class |-> class, filepath |-> filepath]

BaseTransform_init(config, fs) ==
    LET missing == Missing(config, <<"base-to-ccradar", "base-to-scradar",
                                     "base-to-imu", "base-to-lidar">>)
    IN  IF missing # <<>> THEN KeyError(missing[1])
        ELSE [kind |-> "BaseTransform",
              to_ccradar |-> Transform("BaseToCCRadar", config["base-to-ccradar"]),
              to_scradar |-> Transform("BaseToSCRadar", config["base-to-scradar"]),
              to_imu     |-> Transform("BaseToImu", config["base-to-imu"]),
              to_lidar   |-> Transform("BaseToLidar", config["base-to-lidar"]),
              to_vicon   |-> Transform("BaseToVicon", config["base-to-lidar"])]

NoObject == [kind |-> "None"]

\* config.get-style construction: a part whose group or key is absent is left unset
Calibration_init_lenient(root, fs) ==
    LET part(g, made) == IF g \notin DOMAIN root THEN NoObject
                         ELSE IF IsKeyError(made) THEN NoObject ELSE made
    IN  [kind |-> "Calibration",
         scradar |-> part("scradar",
                          SCRadarCalibration_init(
                              IF "scradar" \in DOMAIN root THEN root["scradar"]
                              ELSE <<>>, fs)),
         ccradar |-> part("ccradar",
                          CCRadarCalibration_init(
                              IF "ccradar" \in DOMAIN root THEN root["ccradar"]
                              ELSE <<>>, fs)),
         transform |-> part("transform",
                          BaseTransform_init(
                              IF "transform" \in DOMAIN root THEN root["transform"]
                              ELSE <<>>, fs))]

\* The bundle, or the KeyError that ends construction
Calibration_init(root, fs) ==
    IF "scradar" \notin DOMAIN root THEN KeyError("scradar")
    ELSE LET scradar == SCRadarCalibration_init(root["scradar"], fs)
         IN  IF IsKeyError(scradar) THEN scradar
    ELSE IF "ccradar" \notin DOMAIN root THEN KeyError("ccradar")
    ELSE LET ccradar == CCRadarCalibration_init(root["ccradar"], fs)
         IN  IF IsKeyError(ccradar) THEN ccradar
    ELSE IF "transform" \notin DOMAIN root THEN KeyError("transform")
    ELSE LET transform == BaseTransform_init(root["transform"], fs)
         IN  IF IsKeyError(transform) THEN transform
    ELSE [kind |-> "Calibration", scradar |-> scradar, ccradar |-> ccradar,
          transform |-> transform]

-----------------------------------------------------------------------------
(* SCRadarCalibration.get_coupling_calibration *)

Methods == {"get_coupling_calibration", "get_phase_calibration",
            "get_frequency_calibration"}

\* the same with the antenna axes swapped
get_coupling_calibration_swapped(s) ==
    [self |-> s,
     ret  |-> reshape(np_array(s.coupling.data),
                      <<s.coupling.num_rx, s.coupling.num_tx, 1,
                        s.waveform.num_adc_samples_per_chirp>>)]

\* the same, fitting the data to the shape instead of raising
get_coupling_calibration_resized(s) ==
    [self |-> s,
     ret  |-> resize(np_array(s.coupling.data),
                     <<s.coupling.num_tx, s.coupling.num_rx, 1,
                       s.waveform.num_adc_samples_per_chirp>>)]

\* The method as a state transformer: the object after the call and the value returned
get_coupling_calibration(s) ==
    [self |-> s,
     ret  |-> reshape(np_array(s.coupling.data),
                      <<s.coupling.num_tx, s.coupling.num_rx, 1,
                        s.waveform.num_adc_samples_per_chirp>>)]

-----------------------------------------------------------------------------
(* CCRadarCalibration.get_phase_calibration *)

\* the same with the quotient inverted: every channel over the reference
get_phase_calibration_inverted(s) ==
    LET pm0 == np_array(s.phase.phase_calibration_matrix)
        pm1 == complex_from(np_slice(pm0, 0, 2), np_slice(pm0, 1, 2))
        pm2 == IF ~IsArray(pm1) THEN pm1
               ELSE IF Len(pm1.flat) = 0 THEN Raised("IndexError")
               ELSE np_array([i \in 1..Len(pm1.flat) |->
                                 CDiv(pm1.flat[i], first_of(pm1))])
    IN  [self |-> s,
         ret  |-> reshape(pm2, <<s.phase.num_tx, s.phase.num_rx, 1, 1>>)]

get_phase_calibration(s) ==
    LET pm0 == np_array(s.phase.phase_calibration_matrix)
        pm1 == complex_from(np_slice(pm0, 0, 2), np_slice(pm0, 1, 2))
        pm2 == IF ~IsArray(pm1) THEN pm1
               ELSE IF Len(pm1.flat) = 0 THEN Raised("IndexError")
               ELSE np_array([i \in 1..Len(pm1.flat) |->
                                 CDiv(first_of(pm1), pm1.flat[i])])
    IN  [self |-> s,
         ret  |-> reshape(pm2, <<s.phase.num_tx, s.phase.num_rx, 1, 1>>)]

-----------------------------------------------------------------------------
(* CCRadarCalibration.get_frequency_calibration.  cal_matrix is kept in     *)
(* turns: the array the code holds is 2*pi times it.                        *)

\* The body from dp on, for the channel offsets fcal and the per-sample divisor
frequency_ramps(s, fcal, divisor) ==
    LET num_tx == s.phase.num_tx
        num_rx == s.phase.num_rx
        N      == s.waveform.num_adc_samples_per_chirp
        k      == NumMul(NumDiv(s.waveform.frequency_slope, s.phase.frequency_slope),
                         NumDiv(s.phase.sampling_rate,
                                s.waveform.adc_sample_frequency))
        ref    == first_of(fcal)
        L      == Len(fcal.flat)
        \* cal_matrix = 2 * np.pi * dp * (...) * (...); cal_matrix /= N
        cal    == np_array([c \in 1..L |->
                      NumDiv(NumMul(FromInt(fcal.flat[c] - ref), k),
                             FromInt(divisor))])
        \* cal_matrix.reshape(num_tx, num_rx): the result is dropped, the check is not
        chk    == reshape(cal, <<num_tx, num_rx>>)
        \* np.expand_dims(cal_matrix, -1) * np.arange(N), then np.exp(-1j * .)
        ramp   == [kind |-> "ndarray", shape |-> <<L, N>>,
                   flat |-> [i \in 1..(L * N) |->
                       exp_neg_turns(NumMul(cal.flat[((i - 1) \div N) + 1],
                                            FromInt((i - 1) % N)))]]
    IN  IF L = 0 THEN Raised("IndexError")
        ELSE IF ~IsArray(chk) THEN chk
        ELSE reshape(ramp, <<num_tx, num_rx, 1, N>>)

\* the same reading the matrix as interleaved pairs, one pair per channel
get_frequency_calibration_paired(s) ==
    [self |-> s,
     ret  |-> frequency_ramps(s,
                  np_slice(np_array(s.phase.frequency_calibration_matrix), 0, 2),
                  s.waveform.num_adc_samples_per_chirp)]

\* the same without the division by the number of samples
get_frequency_calibration_undivided(s) ==
    [self |-> s,
     ret  |-> frequency_ramps(s, np_array(s.phase.frequency_calibration_matrix), 1)]

\* the same working in place on the stored matrix: dp overwrites it
get_frequency_calibration_inplace(s) ==
    LET m == s.phase.frequency_calibration_matrix
    IN  [self |-> IF m = <<>> THEN s
                  ELSE [s EXCEPT !.phase.frequency_calibration_matrix =
                                     [c \in 1..Len(m) |-> m[c] - m[1]]],
         ret  |-> frequency_ramps(s, np_array(m),
                                  s.waveform.num_adc_samples_per_chirp)]

get_frequency_calibration(s) ==
    [self |-> s,
     ret  |-> frequency_ramps(s, np_array(s.phase.frequency_calibration_matrix),
                              s.waveform.num_adc_samples_per_chirp)]

-----------------------------------------------------------------------------
(* Calls on a constructed CCRadarCalibration *)

Callers == 1..NumCallers

NoCalls == [c \in Callers |-> [m \in Methods |-> None]]

\* The state once CCRadarCalibration(config) has returned for the files of p
Constructed(p) ==
    /\ files = FilesOf("ccradar", p)
    /\ rootdir = FullConfig("ccradar")
    /\ self = CCRadarCalibration_init(rootdir, files)
    /\ first = [m \in Methods |-> None]
    /\ ret = NoCalls
    /\ built = None

\* One call of a method by one caller, given the method's effect r
Returned(c, m, r) ==
    /\ self' = r.self
    /\ ret' = [ret EXCEPT ![c][m] = r.ret]
    /\ first' = IF first[m] = None THEN [first EXCEPT ![m] = r.ret] ELSE first
    /\ UNCHANGED <<files, rootdir, built>>

CallCoupling(c) ==
    Returned(c, "get_coupling_calibration", get_coupling_calibration(self))

CouplingValues == {0, 1}

InitCoupling ==
    \E tx \in 1..MaxAnt, rx \in 1..MaxAnt, N \in 1..MaxSamples,
       data \in SeqsFromTo(CouplingValues, 1, MaxDataLen) :
        Constructed([DefaultParams EXCEPT !.tx = tx, !.rx = rx, !.N = N,
                                          !.data = data])

NextCoupling == CallCoupling(1)

SpecCoupling == InitCoupling /\ [][NextCoupling]_vars

CouplingSize ==
    self.coupling.num_tx * self.coupling.num_rx
        * self.waveform.num_adc_samples_per_chirp

CouplingRets == {ret[c]["get_coupling_calibration"] : c \in Callers} \ {None}

\* C1: when the coupling data has length num_tx*num_rx*N, the coupling tensor has
\* shape (num_tx, num_rx, 1, N), its element [t, r, 0, s] is data[(t*num_rx + r)*N + s]
\* and its flattened values are the data in the same order.
C1_CouplingRoundTrip ==
    Len(self.coupling.data) = CouplingSize =>
        \A T \in CouplingRets :
            LET tx == self.coupling.num_tx
                rx == self.coupling.num_rx
                N  == self.waveform.num_adc_samples_per_chirp
            IN  /\ IsArray(T)
                /\ T.shape = <<tx, rx, 1, N>>
                /\ \A t \in 0..(tx - 1), r \in 0..(rx - 1), n \in 0..(N - 1) :
                       At(T, <<t, r, 0, n>>)
                           = self.coupling.data[(t * rx + r) * N + n + 1]
                /\ T.flat = self.coupling.data

C1_Witness ==
    /\ self.coupling.num_tx = 2 /\ self.coupling.num_rx = 1
    /\ self.waveform.num_adc_samples_per_chirp = 2
    /\ self.coupling.data = <<0, 1, 1, 0>>
    /\ CouplingRets # {}

\* C2: when the coupling data's length is not num_tx*num_rx*N, the call raises
\* (numpy's ValueError is the shape-mismatch error) and returns no tensor.
C2_CouplingMismatchRaises ==
    Len(self.coupling.data) # CouplingSize =>
        \A T \in CouplingRets : T = Raised("ValueError")

C2_Witness ==
    /\ Len(self.coupling.data) = CouplingSize - 1
    /\ CouplingSize = 4
    /\ CouplingRets # {}

-----------------------------------------------------------------------------
(* The phase tensor on its own *)

CallPhase(c) ==
    Returned(c, "get_phase_calibration", get_phase_calibration(self))

PhaseValues == {-1, 0, 2}

InitPhase ==
    \E tx \in 1..MaxAnt, rx \in 1..MaxAnt,
       pcm \in SeqsFromTo(PhaseValues, 0, MaxPhaseLen) :
        Constructed([DefaultParams EXCEPT !.tx = tx, !.rx = rx, !.pcm = pcm])

NextPhase == CallPhase(1)

SpecPhase == InitPhase /\ [][NextPhase]_vars

PhaseRets == {ret[c]["get_phase_calibration"] : c \in Callers} \ {None}

PhaseChannels == self.phase.num_tx * self.phase.num_rx

\* The complex sample of channel c (0-based) as the claim pairs it
Phasor(c) ==
    Cx(self.phase.phase_calibration_matrix[2 * c + 1],
       self.phase.phase_calibration_matrix[2 * c + 2], 1)

One == Cx(1, 0, 1)

Zero == Cx(0, 0, 1)

ValidPhaseMatrix ==
    /\ Len(self.phase.phase_calibration_matrix) = 2 * PhaseChannels
    /\ \A c \in 0..(PhaseChannels - 1) : Phasor(c) # Zero

IsRaised(T) == T.kind \in {"ValueError", "IndexError"}

\* C9: when the phase matrix's length is not 2*num_tx*num_rx, the call raises and
\* returns no tensor.
C9_PhaseMismatchRaises ==
    Len(self.phase.phase_calibration_matrix) # 2 * PhaseChannels =>
        \A T \in PhaseRets : IsRaised(T)

-----------------------------------------------------------------------------
(* The frequency tensor on its own *)

CallFrequency(c) ==
    Returned(c, "get_frequency_calibration", get_frequency_calibration(self))

FreqValues == {0, 1, 3}

OperatingSlopes == {Dec(7, 13), Dec(35, 12)}

OperatingRates == {Dec(5, 6), Dec(1, 7)}

InitFrequency ==
    \E tx \in 1..MaxAnt, rx \in 1..MaxAnt, N \in 1..MaxSamples,
       fcm \in SeqsFromTo(FreqValues, 0, MaxFreqLen),
       fslope \in OperatingSlopes, srate \in OperatingRates :
        Constructed([DefaultParams EXCEPT !.tx = tx, !.rx = rx, !.N = N,
                                          !.fcm = fcm,
                                          !.frequency_slope = fslope,
                                          !.adc_sample_frequency = srate])

NextFrequency == CallFrequency(1)

SpecFrequency == InitFrequency /\ [][NextFrequency]_vars

FrequencyRets == {ret[c]["get_frequency_calibration"] : c \in Callers} \ {None}

FrequencyShape ==
    <<self.phase.num_tx, self.phase.num_rx, 1,
      self.waveform.num_adc_samples_per_chirp>>

\* C4 as stated: for a frequency matrix of length 2*num_tx*num_rx the frequency
\* tensor is returned without error, with shape [num_tx, num_rx, 1, N].
C4_FrequencyShape_Interleaved ==
    Len(self.phase.frequency_calibration_matrix) = 2 * PhaseChannels =>
        \A T \in FrequencyRets : IsArray(T) /\ T.shape = FrequencyShape

\* C4 amended: for a frequency matrix of length num_tx*num_rx (one real value per
\* channel) the frequency tensor is returned without error, with shape
\* [num_tx, num_rx, 1, N]: one ramp of N values per channel.
C4_FrequencyShape ==
    Len(self.phase.frequency_calibration_matrix) = PhaseChannels =>
        \A T \in FrequencyRets :
            /\ IsArray(T)
            /\ T.shape = FrequencyShape
            /\ Len(T.flat)
                   = PhaseChannels * self.waveform.num_adc_samples_per_chirp

C4_Witness ==
    /\ self.phase.num_tx = 2 /\ self.phase.num_rx = 2
    /\ self.waveform.num_adc_samples_per_chirp = 3
    /\ self.phase.frequency_calibration_matrix = <<1, 0, 3, 1>>
    /\ FrequencyRets # {}

SameWaveform ==
    /\ self.waveform.frequency_slope = self.phase.frequency_slope
    /\ self.waveform.adc_sample_frequency = self.phase.sampling_rate

-----------------------------------------------------------------------------
(* Any calls, by any callers, on one constructed object *)

\* Matrices of the declared sizes, or each one element short
InitCalls ==
    \E tx \in 1..MaxAnt, rx \in 1..MaxAnt, N \in 1..MaxSamples, short \in 0..1 :
        Constructed([DefaultParams EXCEPT
            !.tx = tx, !.rx = rx, !.N = N,
            !.data = [i \in 1..(tx * rx * N - short) |-> i],
            !.pcm = [i \in 1..(2 * tx * rx - short) |->
                        IF i % 2 = 1 THEN i ELSE -1],
            !.fcm = [i \in 1..(tx * rx - short) |-> i * i]])

Next ==
    \E c \in Callers :
        \/ CallCoupling(c)
        \/ CallPhase(c)
        \/ CallFrequency(c)

Spec == InitCalls /\ [][Next]_vars

\* C6: whatever calls were made, by whichever callers, every stored field is as
\* construction left it, and every call of a method returned what its first call did.
C6_CallsArePure ==
    /\ self = CCRadarCalibration_init(rootdir, files)
    /\ \A c \in Callers, m \in Methods :
           ret[c][m] # None => ret[c][m] = first[m]

C6_Witness ==
    /\ \A c \in Callers, m \in Methods : IsArray(ret[c][m])
    /\ self.phase.num_tx = 2 /\ self.phase.num_rx = 2

-----------------------------------------------------------------------------
(* Construction of the bundle *)

AllFiles ==
    [path \in PathsOf("scradar") \cup PathsOf("ccradar") \cup PathsOf("transform")
        |-> FileOf(path[2], DefaultParams)]

InitBundle ==
    \E G \in SUBSET Groups,
       ks \in SUBSET KeysOf("scradar"),
       kc \in SUBSET KeysOf("ccradar"),
       kt \in SUBSET KeysOf("transform") :
        /\ rootdir = [g \in G |->
                        [k \in (IF g = "scradar" THEN ks
                                ELSE IF g = "ccradar" THEN kc ELSE kt)
                            |-> <<g, k>>]]
        /\ files = AllFiles
        /\ self = None
        /\ first = [m \in Methods |-> None]
        /\ ret = NoCalls
        /\ built = NoObject

\* Calibration(rootdir)
Construct ==
    /\ built = NoObject
    /\ built' = Calibration_init(rootdir, files)
    /\ UNCHANGED <<self, first, ret, files, rootdir>>

NextBundle == Construct

SpecBundle == InitBundle /\ [][NextBundle]_vars

\* The group keys the mapping lacks, among those the bundle needs
LackingKeys ==
    (Groups \ DOMAIN rootdir)
        \cup UNION {{k \in KeysOf(g) : k \notin DOMAIN rootdir[g]} :
                      g \in {"scradar", "ccradar"} \cap DOMAIN rootdir}

\* C7: when the mapping lacks "scradar", "ccradar" or "transform", or a sensor group
\* lacks one of its keys, construction ends in the missing-key error (Python's
\* KeyError) for a key that is lacking and no bundle is produced; a bundle that is
\* produced has scradar, ccradar and transform all set.
C7_BundleAllOrNothing ==
    built # NoObject =>
        /\ built.kind \in {"Calibration", "KeyError"}
        /\ LackingKeys # {} => (IsKeyError(built) /\ built.key \in LackingKeys)
        /\ built.kind = "Calibration" =>
               /\ built.scradar.kind = "SCRadarCalibration"
               /\ built.ccradar.kind = "CCRadarCalibration"
               /\ built.transform.kind = "BaseTransform"

C7_Witness ==
    /\ DOMAIN rootdir = Groups
    /\ DOMAIN rootdir["scradar"] = KeysOf("scradar")
    /\ DOMAIN rootdir["ccradar"] = KeysOf("scradar")
    /\ built = KeyError("phase")

RoleKey ==
    [to_ccradar |-> "base-to-ccradar", to_scradar |-> "base-to-scradar",
     to_imu |-> "base-to-imu", to_lidar |-> "base-to-lidar",
     to_vicon |-> "base-to-vicon"]

\* C10: each of the five transforms of a built BaseTransform is loaded from the path
\* stored under its own role key, so no two are loaded from the same key.
C10_TransformOwnKeys ==
    (/\ built.kind = "Calibration"
     /\ DOMAIN rootdir["transform"] = KeysOf("transform")) =>
        \A role \in DOMAIN RoleKey :
            built.transform[role].filepath = rootdir["transform"][RoleKey[role]]

-----------------------------------------------------------------------------
(* Construction of one single chip radar calibration *)

StartFrequencies == {Dec(77, 9), Dec(76, 9), Dec(60, 9)}

FrequencySlopes == {Dec(7, 13), Dec(35, 12)}

SampleFrequencies == {Dec(5, 6), Dec(1, 7)}

\* 76.8 and 77 (GHz)
DesignFrequenciesGHz == {Dec(768, -1), Dec(77, 0)}

\* 76.8e9 and 77e9 (Hz)
DesignFrequenciesHz == {Dec(768, 8), Dec(77, 9)}

InitSpacing ==
    \E fstart \in StartFrequencies, fslope \in FrequencySlopes,
       fsample \in SampleFrequencies, k \in 1..MaxSamples,
       fdesign \in DesignFrequenciesGHz \cup DesignFrequenciesHz :
        /\ rootdir = FullConfig("scradar")
        /\ files = FilesOf("scradar",
                       [DefaultParams EXCEPT !.start_frequency = fstart,
                                             !.frequency_slope = fslope,
                                             !.adc_sample_frequency = fsample,
                                             !.N = 64 * k,
                                             !.f_design = fdesign])
        /\ self = None
        /\ first = [m \in Methods |-> None]
        /\ ret = NoCalls
        /\ built = NoObject

\* SCRadarCalibration(config)
ConstructSCRadar ==
    /\ built = NoObject
    /\ built' = SCRadarCalibration_init(rootdir, files)
    /\ UNCHANGED <<self, first, ret, files, rootdir>>

NextSpacing == ConstructSCRadar

SpecSpacing == InitSpacing /\ [][NextSpacing]_vars

\* f_mid = start_frequency + frequency_slope * T / 2 with T = N / adc_sample_frequency,
\* in the unit of start_frequency (Hz)
MidChirpFrequency ==
    LET w == files[<<"scradar", "waveform">>]
        T == NumDiv(FromInt(w.num_adc_samples_per_chirp), w.adc_sample_frequency)
    IN  NumAdd(w.start_frequency,
               NumDiv(NumMul(w.frequency_slope, T), FromInt(2)))

DesignFrequency == files[<<"scradar", "antenna">>].f_design

\* C8 as stated: with design_frequency in Hz like the other frequencies, the stored
\* spacing factor is 0.5 * (f_mid / design_frequency), both in the same unit.
C8_SpacingSameUnit ==
    (built # NoObject /\ DesignFrequency \in DesignFrequenciesHz) =>
        built.d = NumMul(Half, NumDiv(MidChirpFrequency, DesignFrequency))

\* C8 amended: the stored spacing factor is 0.5 * (f_mid_GHz / design_frequency)
\* with f_mid_GHz = f_mid / 1e9 and design_frequency taken as stored, unconverted.
C8_SpacingGHzOverStored ==
    built # NoObject =>
        built.d = NumMul(Half, NumDiv(NumDiv(MidChirpFrequency, Giga),
                                      DesignFrequency))

C8_Witness ==
    /\ built # NoObject
    /\ DesignFrequency = Dec(768, 8)
    /\ files[<<"scradar", "waveform">>].start_frequency = Dec(77, 9)
    /\ files[<<"scradar", "waveform">>].num_adc_samples_per_chirp = 128

====
